---------------------------- MODULE Spec2Model ----------------------------
(***************************************************************************)
(* Hashing to a prime elliptic curve over a quadratic extension            *)
(* (src/epx/relic_ep2_map.c): ep2_map, ep2_mul_cof_bn, ep2_mul_cof_b12.    *)
(*                                                                         *)
(* The functions of the file are modelled statement by statement: one      *)
(* action per source line (or per group of adjacent lines), named after    *)
(* the function and the line.  The collaborators the file calls (field     *)
(* and extension-field arithmetic, the group law, the Frobenius map, the   *)
(* digest, the curve registry) are operators, instantiated on small        *)
(* curves of the same families: a Barreto-Naehrig curve with parameter -1  *)
(* (p = 19, r = 13), a Barreto-Lynn-Scott curve with parameter -2          *)
(* (p = 37, r = 13) and three ordinary curves over F_31^2 whose cofactors  *)
(* have 7, 8 and 9 bits, with a machine word of 8 bits.                    *)
(***************************************************************************)
EXTENDS Integers, Sequences, FiniteSets, TLC

VARIABLES
    curve,      \* the configured curve (the process-wide registry)
    addmode,    \* the build's point arithmetic: "BASIC" (affine) or "PROJC"
    op,         \* the entry point being run: "map", "cof_bn", "cof_b12"
    call,       \* 1 for the first call of the session, 2 for the repeated one
    alias,      \* clearer called directly: r and p are the same storage
    msg,        \* ep2_map's message (a sequence of bytes)
    pIn,        \* the point passed to the cofactor clearer (by the caller, or by
                \* ep2_map after the candidate loop)
    prior,      \* what the output storage held when the call started
    pc,         \* the statement about to run
    pt,         \* the caller's point p (ep2_map's output, the clearers' input)
    rt,         \* the clearers' output r, when it is not the storage of p
    x,          \* ep2_map's bn_t x
    digest,     \* ep2_map's digest buffer
    ft,         \* ep2_map's fp2_t t0
    cx,         \* the clearers' bn_t x
    t0, t1, t2, t3, \* the clearers' temporaries
    k,          \* increments of x made by this call, one per failed square root
    usedDig,    \* which multiplication the default branch used: "dig", "basic", "none"
    thrown,     \* an error was raised and is propagating
    first       \* the session's first call (its output, its aliasing, the prior
                \* content of its output storage), "none" before it ends

vars == <<curve, addmode, op, call, alias, msg, pIn, prior, pc, pt, rt, x,
          digest, ft, cx, t0, t1, t2, t3, k, usedDig, thrown, first>>

----------------------------------------------------------------------------
(* Bounds of the model.                                                    *)

\* messages have at most MaxLen bytes
MaxLen == 2
\* the bytes messages are made of
Bytes == {0, 255}
\* the clearers' input points have x = (a, b) with a <= MaxRe, b <= MaxIm
MaxRe == 3
MaxIm == 1

----------------------------------------------------------------------------
(* Build constants and the curve registry.                                 *)

EP_BN == 1
EP_B12 == 2
\* bits of a machine word (dig_t)
RLC_DIG == 8
\* bytes of a digest
RLC_MD_LEN == 2

Registry ==
    [BN   |-> [fam |-> EP_BN, prime |-> 19, qnr |-> 18,
               a |-> <<0, 0>>, b |-> <<1, 1>>, par |-> -1,
               cof |-> 25, ord |-> 13,
               frb2 |-> <<0, 8>>, frb3 |-> <<16, 3>>],
     B12  |-> [fam |-> EP_B12, prime |-> 37, qnr |-> 2,
               a |-> <<0, 0>>, b |-> <<1, 9>>, par |-> -2,
               cof |-> 109, ord |-> 13,
               frb2 |-> <<18, 3>>, frb3 |-> <<33, 8>>],
     G73  |-> [fam |-> 0, prime |-> 31, qnr |-> 30,
               a |-> <<0, 24>>, b |-> <<6, 18>>, par |-> 0,
               cof |-> 73, ord |-> 13,
               frb2 |-> <<1, 0>>, frb3 |-> <<1, 0>>],
     G193 |-> [fam |-> 0, prime |-> 31, qnr |-> 30,
               a |-> <<28, 15>>, b |-> <<27, 17>>, par |-> 0,
               cof |-> 193, ord |-> 5,
               frb2 |-> <<1, 0>>, frb3 |-> <<1, 0>>],
     G311 |-> [fam |-> 0, prime |-> 31, qnr |-> 30,
               a |-> <<5, 27>>, b |-> <<18, 15>>, par |-> 0,
               cof |-> 311, ord |-> 3,
               frb2 |-> <<1, 0>>, frb3 |-> <<1, 0>>]]

Curves == DOMAIN Registry

ep_curve_is_pairf == Registry[curve].fam
fp_prime_get == Registry[curve].prime
fp_prime_get_par == Registry[curve].par
ep2_curve_get_cof == Registry[curve].cof
ep2_curve_get_ord == Registry[curve].ord
ep2_curve_get_a == Registry[curve].a
ep2_curve_get_b == Registry[curve].b

\* bytes of a field element
RLC_FP_BYTES == IF fp_prime_get <= 256 THEN 1 ELSE 2

RLC_MIN(m, n) == IF m < n THEN m ELSE n

----------------------------------------------------------------------------
(* Multiple-precision integers.                                            *)

Abs(n) == IF n < 0 THEN -n ELSE n

RECURSIVE BitLen(_)
BitLen(n) == IF n = 0 THEN 0 ELSE 1 + BitLen(n \div 2)

\* number of bits of the magnitude
bn_bits(n) == BitLen(Abs(n))

bn_get_bit(n, i) == (Abs(n) \div (2 ^ i)) % 2

\* the least significant digit, x->dp[0]
bn_dp0(n) == Abs(n) % (2 ^ RLC_DIG)

\* big-endian bytes bin[1 .. len] to integer
RECURSIVE bn_read_bin(_, _)
bn_read_bin(bin, len) ==
    IF len = 0 THEN 0 ELSE 256 * bn_read_bin(bin, len - 1) + bin[len]

----------------------------------------------------------------------------
(* The digest.                                                             *)

RECURSIVE MdMix(_, _)
MdMix(m, h) ==
    IF m = <<>> THEN h
    ELSE MdMix(Tail(m), (h * 33 + Head(m) * 101 + 7) % 65536)

md_map(m) ==
    LET h == MdMix(m, 5381 + 977 * Len(m))
    IN  [i \in 1..RLC_MD_LEN |-> (h \div (256 ^ (RLC_MD_LEN - i))) % 256]

----------------------------------------------------------------------------
(* Prime field and quadratic extension.                                    *)
(*                                                                         *)
(* Val({e(u) : u \in {a}}) is e(a) with the argument a evaluated once,     *)
(* before e: every operator that reads an argument more than once binds    *)
(* it this way.                                                            *)

Val(S) == CHOOSE v \in S : TRUE

Fp == 0 .. (fp_prime_get - 1)
fp_prime_conv(n) == n % fp_prime_get
fp_add(a, b) == (a + b) % fp_prime_get
fp_sub(a, b) == (a - b) % fp_prime_get
fp_neg(a) == (0 - a) % fp_prime_get
fp_mul(a, b) == (a * b) % fp_prime_get
fp_add_dig(a, d) == (a + d) % fp_prime_get
fp_set_dig(d) == d % fp_prime_get
fp_inv(a) ==
    Val({CHOOSE i \in Fp : (u * i) % fp_prime_get = 1 : u \in {a}})

\* square root in the prime field with success test
fp_srt(a) ==
    Val({LET roots == {s \in Fp : (s * s) % fp_prime_get = u}
         IN  IF roots = {} THEN <<FALSE, 0>>
             ELSE <<TRUE, CHOOSE s \in roots : TRUE>> : u \in {a}})

Fp2 == Fp \X Fp
fp2_zero == <<0, 0>>
fp2_one == <<1, 0>>
fp2_is_zero(a) == a = fp2_zero
fp2_add(a, b) ==
    Val({<<fp_add(u[1], v[1]), fp_add(u[2], v[2])>> : u \in {a}, v \in {b}})
fp2_sub(a, b) ==
    Val({<<fp_sub(u[1], v[1]), fp_sub(u[2], v[2])>> : u \in {a}, v \in {b}})
fp2_neg(a) == Val({<<fp_neg(u[1]), fp_neg(u[2])>> : u \in {a}})
fp2_dbl(a) == Val({<<fp_add(u[1], u[1]), fp_add(u[2], u[2])>> : u \in {a}})
fp2_mul(a, b) ==
    Val({<<fp_add(fp_mul(u[1], v[1]),
                  fp_mul(Registry[curve].qnr, fp_mul(u[2], v[2]))),
           fp_add(fp_mul(u[1], v[2]), fp_mul(u[2], v[1]))>> :
         u \in {a}, v \in {b}})
fp2_sqr(a) == Val({fp2_mul(u, u) : u \in {a}})
\* the Frobenius map of the extension: conjugation
fp2_frb(a) == Val({<<u[1], fp_neg(u[2])>> : u \in {a}})
Fp2Inv(a) ==
    Val({<<fp_mul(a[1], ni), fp_mul(fp_neg(a[2]), ni)>> :
         ni \in {fp_inv(fp_sub(fp_mul(a[1], a[1]),
                               fp_mul(Registry[curve].qnr,
                                      fp_mul(a[2], a[2]))))}})

fp2_inv(a) == Val({Fp2Inv(u) : u \in {a}})

\* square root in the extension with success test, <<TRUE, root>> or
\* <<FALSE, 0>>, by the norm: for a = c^2 with c = (c0, c1), the norm of a
\* is the square of d = c0^2 - qnr c1^2, and c0^2 = (a0 + d) / 2
Fp2Srt(a) ==
    LET qnr == Registry[curve].qnr
        half == fp_inv(2)
    IN  IF a[2] = 0
        THEN LET s == fp_srt(a[1])
             IN  IF s[1] THEN <<TRUE, <<s[2], 0>>>>
                 ELSE <<TRUE, <<0, fp_srt(fp_mul(a[1], fp_inv(qnr)))[2]>>>>
        ELSE LET d == fp_srt(fp_sub(fp_mul(a[1], a[1]),
                                    fp_mul(qnr, fp_mul(a[2], a[2]))))
                 u == fp_srt(fp_mul(fp_add(a[1], d[2]), half))
                 v == fp_srt(fp_mul(fp_sub(a[1], d[2]), half))
                 c0 == IF u[1] THEN u[2] ELSE v[2]
             IN  IF ~d[1] THEN <<FALSE, fp2_zero>>
                 ELSE <<TRUE, <<c0, fp_mul(a[2], fp_inv(fp_add(c0, c0)))>>>>

fp2_srt(a) == Val({Fp2Srt(u) : u \in {a}})

----------------------------------------------------------------------------
(* Points of the curve over the extension: Jacobian coordinates (x, y, z)  *)
(* and the flag norm, 1 when z = 1 (or the point is the point at           *)
(* infinity, whose coordinates are all zero).                              *)

Pt(px, py, pz, n) == [x |-> px, y |-> py, z |-> pz, norm |-> n]

ep2_set_infty == Pt(fp2_zero, fp2_zero, fp2_zero, 1)
ep2_is_infty(p) == fp2_is_zero(p.z)
ep2_copy(p) == p

\* the right-hand side of the curve equation at p.x: x^3 + a x + b
ep2_rhs(p) ==
    Val({fp2_add(fp2_add(fp2_mul(fp2_sqr(px), px),
                         fp2_mul(ep2_curve_get_a, px)),
                 ep2_curve_get_b) : px \in {p.x}})

Ep2Norm(p) ==
    IF ep2_is_infty(p) THEN ep2_set_infty
    ELSE IF p.norm = 1 THEN ep2_copy(p)
    ELSE Val({Pt(fp2_mul(p.x, fp2_sqr(zi)),
                 fp2_mul(p.y, fp2_mul(fp2_sqr(zi), zi)), fp2_one, 1) :
              zi \in {fp2_inv(p.z)}})

ep2_norm(p) == Val({Ep2Norm(u) : u \in {p}})

ep2_neg(p) ==
    Val({IF ep2_is_infty(u) THEN ep2_set_infty
         ELSE Pt(u.x, fp2_neg(u.y), u.z, u.norm) : u \in {p}})

\* affine doubling (EP_ADD == BASIC): reads x and y only
ep2_dbl_basic(p) ==
    IF ep2_is_infty(p) \/ fp2_is_zero(p.y) THEN ep2_set_infty
    ELSE Val({Val({Pt(x3, fp2_sub(fp2_mul(l, fp2_sub(p.x, x3)), p.y),
                      fp2_one, 1) :
                   x3 \in {fp2_sub(fp2_sub(fp2_sqr(l), p.x), p.x)}}) :
              l \in {fp2_mul(fp2_add(fp2_mul(<<3, 0>>, fp2_sqr(p.x)),
                                     ep2_curve_get_a),
                             fp2_inv(fp2_dbl(p.y)))}})

\* Jacobian doubling (EP_ADD == PROJC)
ep2_dbl_projc(p) ==
    IF ep2_is_infty(p) \/ fp2_is_zero(p.y) THEN ep2_set_infty
    ELSE Val({Val({Pt(x3,
                      fp2_sub(fp2_mul(m, fp2_sub(s, x3)),
                              fp2_mul(<<8, 0>>, fp2_sqr(yy))),
                      fp2_mul(fp2_dbl(p.y), p.z), 0) :
                   x3 \in {fp2_sub(fp2_sqr(m), fp2_dbl(s))}}) :
              yy \in {fp2_sqr(p.y)},
              s \in {fp2_mul(<<4, 0>>, fp2_mul(p.x, fp2_sqr(p.y)))},
              m \in {fp2_add(fp2_mul(<<3, 0>>, fp2_sqr(p.x)),
                             fp2_mul(ep2_curve_get_a,
                                     fp2_sqr(fp2_sqr(p.z))))}})

ep2_dbl(p) ==
    Val({IF addmode = "BASIC" THEN ep2_dbl_basic(u) ELSE ep2_dbl_projc(u) :
         u \in {p}})

\* affine addition (EP_ADD == BASIC): reads x and y only
ep2_add_basic(p, q) ==
    IF ep2_is_infty(p) THEN ep2_copy(q)
    ELSE IF ep2_is_infty(q) THEN ep2_copy(p)
    ELSE IF p.x = q.x
         THEN IF p.y = q.y THEN ep2_dbl_basic(p) ELSE ep2_set_infty
    ELSE Val({Val({Pt(x3, fp2_sub(fp2_mul(l, fp2_sub(p.x, x3)), p.y),
                      fp2_one, 1) :
                   x3 \in {fp2_sub(fp2_sub(fp2_sqr(l), p.x), q.x)}}) :
              l \in {fp2_mul(fp2_sub(q.y, p.y),
                             fp2_inv(fp2_sub(q.x, p.x)))}})

\* Jacobian addition (EP_ADD == PROJC), on u1 = x1 z2^2, u2 = x2 z1^2,
\* s1 = y1 z2^3, s2 = y2 z1^3
AddJac(p, q, u1, s1, h, r) ==
    IF fp2_is_zero(h)
    THEN IF fp2_is_zero(r) THEN ep2_dbl_projc(p) ELSE ep2_set_infty
    ELSE Val({Val({Pt(x3,
                      fp2_sub(fp2_mul(r, fp2_sub(v, x3)), fp2_mul(s1, hhh)),
                      fp2_mul(fp2_mul(p.z, q.z), h), 0) :
                   x3 \in {fp2_sub(fp2_sub(fp2_sqr(r), hhh), fp2_dbl(v))}}) :
              hhh \in {fp2_mul(fp2_sqr(h), h)},
              v \in {fp2_mul(u1, fp2_sqr(h))}})

ep2_add_projc(p, q) ==
    IF ep2_is_infty(p) THEN ep2_copy(q)
    ELSE IF ep2_is_infty(q) THEN ep2_copy(p)
    ELSE Val({AddJac(p, q, u1, s1, fp2_sub(u2, u1), fp2_sub(s2, s1)) :
              u1 \in {fp2_mul(p.x, fp2_sqr(q.z))},
              u2 \in {fp2_mul(q.x, fp2_sqr(p.z))},
              s1 \in {fp2_mul(p.y, fp2_mul(fp2_sqr(q.z), q.z))},
              s2 \in {fp2_mul(q.y, fp2_mul(fp2_sqr(p.z), p.z))}})

ep2_add(p, q) ==
    Val({IF addmode = "BASIC" THEN ep2_add_basic(u, v)
         ELSE ep2_add_projc(u, v) : u \in {p}, v \in {q}})

ep2_sub(p, q) == ep2_add(p, ep2_neg(q))

\* the Frobenius endomorphism of the twist, applied i times (i = 1 or 2):
\* acts on x and y, the input is taken to be normalized
Ep2Frb(p, i) ==
    IF i = 1
    THEN Pt(fp2_mul(fp2_frb(p.x), Registry[curve].frb2),
            fp2_mul(fp2_frb(p.y), Registry[curve].frb3), p.z, p.norm)
    ELSE Pt(fp2_mul(p.x, fp2_mul(Registry[curve].frb2,
                                 fp2_frb(Registry[curve].frb2))),
            fp2_neg(p.y), p.z, p.norm)

ep2_frb(p, i) == Val({Ep2Frb(u, i) : u \in {p}})

\* double-and-add over the bits i, i - 1, ..., 0 of n
RECURSIVE MulBits(_, _, _, _)
MulBits(t, p, n, i) ==
    IF i < 0 THEN t
    ELSE Val({MulBits(IF bn_get_bit(n, i) = 1 THEN ep2_add(d, p) ELSE d,
                      p, n, i - 1) : d \in {ep2_dbl(t)}})

Ep2MulBasic(p, n) ==
    IF n = 0 \/ ep2_is_infty(p) THEN ep2_set_infty
    ELSE Val({IF n < 0 THEN ep2_neg(r) ELSE r :
              r \in {ep2_norm(MulBits(ep2_copy(p), p, n, bn_bits(n) - 2))}})

ep2_mul_basic(p, n) == Val({Ep2MulBasic(u, m) : u \in {p}, m \in {n}})

Ep2MulDig(p, d) ==
    IF d = 0 \/ ep2_is_infty(p) THEN ep2_set_infty
    ELSE ep2_norm(MulBits(ep2_copy(p), p, d, BitLen(d) - 2))

ep2_mul_dig(p, d) == Val({Ep2MulDig(u, m) : u \in {p}, m \in {d}})

----------------------------------------------------------------------------
(* The calls: inputs, storage, and the session of two calls.               *)

Msgs == UNION {[1..n -> Bytes] : n \in 0..MaxLen}

\* storage as ep2_new leaves it (zeroed)
Fresh == Pt(fp2_zero, fp2_zero, fp2_zero, 0)

\* what the caller's output point may hold before a call
Garbage == {Pt(<<1, 2>>, <<3, 4>>, <<5, 6>>, 0),
           Pt(<<2, 1>>, <<1, 1>>, <<1, 0>>, 1)}

\* normalized points of the configured curve, with bounded x
LiftX(px) ==
    LET s == fp2_srt(ep2_rhs(Pt(px, fp2_zero, fp2_one, 1)))
    IN  IF s[1] THEN {Pt(px, s[2], fp2_one, 1),
                      Pt(px, fp2_neg(s[2]), fp2_one, 1)}
        ELSE {}

InputPoints ==
    {ep2_set_infty} \cup
    UNION {LiftX(px) : px \in (0..MaxRe) \X (0..MaxIm)}

Ops == {"map"} \cup (IF ep_curve_is_pairf = EP_BN THEN {"cof_bn"} ELSE {})
               \cup (IF ep_curve_is_pairf = EP_B12 THEN {"cof_b12"} ELSE {})

Entry == CASE op = "map" -> "map_238"
           [] op = "cof_bn" -> "bn_133"
           [] op = "cof_b12" -> "b12_187"

\* r and p are one storage: always in ep2_map's calls of the clearers
Aliased == op = "map" \/ alias

\* the point the call writes its result to
Output == IF Aliased THEN pt ELSE rt

Init ==
    /\ curve \in Curves
    /\ addmode \in {"BASIC", "PROJC"}
    /\ op \in Ops
    /\ call = 1
    /\ IF op = "map"
       THEN /\ msg \in Msgs
            /\ alias = TRUE
            /\ pIn = Fresh
            /\ pt \in Garbage
            /\ rt = Fresh
       ELSE /\ msg = <<>>
            /\ alias \in BOOLEAN
            /\ pIn \in InputPoints
            /\ pt = pIn
            /\ rt \in (IF alias THEN {Fresh} ELSE Garbage)
    /\ prior = Output
    /\ pc = Entry
    /\ x = 0
    /\ digest = [i \in 1..RLC_MD_LEN |-> 0]
    /\ ft = fp2_zero
    /\ cx = 0
    /\ t0 = Fresh /\ t1 = Fresh /\ t2 = Fresh /\ t3 = Fresh
    /\ k = 0
    /\ usedDig = "none"
    /\ thrown = FALSE
    /\ first = "none"

config == <<curve, addmode, op, call, alias, msg, prior, first>>
mapLocals == <<x, digest, ft>>
clrLocals == <<cx, t0, t1, t2, t3>>

Step(from, to) == pc = from /\ pc' = to

\* the caller calls again, with the same input and other storage contents
Recall ==
    /\ pc = "done" /\ call = 1
    /\ call' = 2
    /\ first' = [out |-> Output, alias |-> Aliased, prior |-> prior]
    /\ IF op = "map"
       THEN /\ pt' \in Garbage
            /\ UNCHANGED <<alias, rt>>
            /\ pIn' = Fresh
       ELSE /\ alias' \in BOOLEAN
            /\ pt' = pIn
            /\ rt' \in (IF alias' THEN {Fresh} ELSE Garbage)
            /\ pIn' = pIn
    /\ prior' = IF op = "map" \/ alias' THEN pt' ELSE rt'
    /\ pc' = Entry
    /\ x' = 0 /\ digest' = [i \in 1..RLC_MD_LEN |-> 0] /\ ft' = fp2_zero
    /\ cx' = 0 /\ t0' = Fresh /\ t1' = Fresh /\ t2' = Fresh /\ t3' = Fresh
    /\ k' = 0 /\ usedDig' = "none"
    /\ UNCHANGED <<curve, addmode, op, msg, thrown>>

----------------------------------------------------------------------------
(* ep2_map                                                                 *)

\* lines 238-239: bn_new(x); fp2_new(t0)
ep2_map_l238 ==
    /\ Step("map_238", "map_241")
    /\ x' = 0 /\ ft' = fp2_zero
    /\ UNCHANGED <<config, pIn, pt, rt, digest, clrLocals, k, usedDig, thrown>>

\* lines 238-239, the allocation fails
ep2_map_l238_fail ==
    /\ Step("map_238", "map_279")
    /\ thrown' = TRUE
    /\ UNCHANGED <<config, pIn, pt, rt, mapLocals, clrLocals, k, usedDig>>

ep2_map_l241 ==
    /\ Step("map_241", "map_242")
    /\ digest' = md_map(msg)
    /\ UNCHANGED <<config, pIn, pt, rt, x, ft, clrLocals, k, usedDig, thrown>>

ep2_map_l242 ==
    /\ Step("map_242", "map_244")
    /\ x' = bn_read_bin(digest, RLC_MIN(RLC_FP_BYTES, RLC_MD_LEN))
    /\ UNCHANGED <<config, pIn, pt, rt, digest, ft, clrLocals, k, usedDig,
                   thrown>>

\* lines 244-247
\* lines 244-247 without fp_zero(p->x[1])
ep2_map_l244_keep ==
    /\ Step("map_244", "map_250")
    /\ pt' = [pt EXCEPT !.x = <<fp_prime_conv(x), pt.x[2]>>,
                        !.z = <<fp_set_dig(1), 0>>]
    /\ UNCHANGED <<config, pIn, rt, mapLocals, clrLocals, k, usedDig, thrown>>

ep2_map_l244 ==
    /\ Step("map_244", "map_250")
    /\ pt' = [pt EXCEPT !.x = <<fp_prime_conv(x), 0>>,
                        !.z = <<fp_set_dig(1), 0>>]
    /\ UNCHANGED <<config, pIn, rt, mapLocals, clrLocals, k, usedDig, thrown>>

ep2_map_l250 ==
    /\ Step("map_250", "map_252")
    /\ ft' = ep2_rhs(pt)
    /\ UNCHANGED <<config, pIn, pt, rt, x, digest, clrLocals, k, usedDig,
                   thrown>>

\* line 252: fp2_srt stores a root in p->y, or fails and leaves p->y
ep2_map_l252 ==
    /\ pc = "map_252"
    /\ LET s == fp2_srt(ft)
       IN  IF s[1]
           THEN pc' = "map_253" /\ pt' = [pt EXCEPT !.y = s[2]]
           ELSE pc' = "map_257" /\ pt' = pt
    /\ UNCHANGED <<config, pIn, rt, mapLocals, clrLocals, k, usedDig, thrown>>

\* lines 253-254
ep2_map_l253 ==
    /\ Step("map_253", "map_260")
    /\ pt' = [pt EXCEPT !.norm = 1]
    /\ UNCHANGED <<config, pIn, rt, mapLocals, clrLocals, k, usedDig, thrown>>

\* line 257 with the step doubled
ep2_map_l257_by2 ==
    /\ Step("map_257", "map_250")
    /\ pt' = [pt EXCEPT !.x = <<fp_add_dig(pt.x[1], 2), pt.x[2]>>]
    /\ k' = k + 1
    /\ UNCHANGED <<config, pIn, rt, mapLocals, clrLocals, usedDig, thrown>>

\* line 257 without the increment
ep2_map_l257_stuck ==
    /\ Step("map_257", "map_250")
    /\ UNCHANGED <<config, pIn, pt, rt, mapLocals, clrLocals, k, usedDig,
                   thrown>>

ep2_map_l257 ==
    /\ Step("map_257", "map_250")
    /\ pt' = [pt EXCEPT !.x = <<fp_add_dig(pt.x[1], 1), pt.x[2]>>]
    /\ k' = k + 1
    /\ UNCHANGED <<config, pIn, rt, mapLocals, clrLocals, usedDig, thrown>>

\* lines 260-267: the switch, and the call of a clearer with r = p
ep2_map_l260 ==
    /\ pc = "map_260"
    /\ pc' = CASE ep_curve_is_pairf = EP_BN -> "bn_133"
               [] ep_curve_is_pairf = EP_B12 -> "b12_187"
               [] OTHER -> "map_269"
    /\ pIn' = pt
    /\ UNCHANGED <<config, pt, rt, mapLocals, clrLocals, k, usedDig, thrown>>

ep2_map_l269 ==
    /\ Step("map_269", "map_270")
    /\ x' = ep2_curve_get_cof
    /\ UNCHANGED <<config, pIn, pt, rt, digest, ft, clrLocals, k, usedDig,
                   thrown>>

\* line 270 with "at most" for "fewer than"
ep2_map_l270_le ==
    /\ pc = "map_270"
    /\ pc' = IF bn_bits(x) <= RLC_DIG THEN "map_271" ELSE "map_273"
    /\ UNCHANGED <<config, pIn, pt, rt, mapLocals, clrLocals, k, usedDig,
                   thrown>>

ep2_map_l270 ==
    /\ pc = "map_270"
    /\ pc' = IF bn_bits(x) < RLC_DIG THEN "map_271" ELSE "map_273"
    /\ UNCHANGED <<config, pIn, pt, rt, mapLocals, clrLocals, k, usedDig,
                   thrown>>

ep2_map_l271 ==
    /\ Step("map_271", "map_282")
    /\ pt' = ep2_mul_dig(pt, bn_dp0(x))
    /\ usedDig' = "dig"
    /\ UNCHANGED <<config, pIn, rt, mapLocals, clrLocals, k, thrown>>

ep2_map_l273 ==
    /\ Step("map_273", "map_282")
    /\ pt' = ep2_mul_basic(pt, x)
    /\ usedDig' = "basic"
    /\ UNCHANGED <<config, pIn, rt, mapLocals, clrLocals, k, thrown>>

\* lines 278-280: CATCH_ANY { THROW(ERR_CAUGHT); }
ep2_map_l279 ==
    /\ Step("map_279", "map_282")
    /\ thrown' = TRUE
    /\ UNCHANGED <<config, pIn, pt, rt, mapLocals, clrLocals, k, usedDig>>

\* lines 281-284: FINALLY, then the return or the propagation of the error
ep2_map_l282 ==
    /\ pc = "map_282"
    /\ pc' = IF thrown THEN "error" ELSE "done"
    /\ UNCHANGED <<config, pIn, pt, rt, mapLocals, clrLocals, k, usedDig,
                   thrown>>

----------------------------------------------------------------------------
(* The cofactor clearers.  p is read from pt; r is pt when r and p are one *)
(* storage, rt otherwise.                                                  *)

WriteR(v) ==
    IF Aliased THEN pt' = v /\ rt' = rt ELSE rt' = v /\ pt' = pt

\* where a clearer returns to, or propagates its error to
Return ==
    IF op = "map" THEN (IF thrown THEN "map_279" ELSE "map_282")
    ELSE (IF thrown THEN "error" ELSE "done")

(* ep2_mul_cof_bn *)

\* lines 133-136: ep2_new(t0); ep2_new(t1); ep2_new(t2); bn_new(x)
ep2_mul_cof_bn_l133 ==
    /\ Step("bn_133", "bn_138")
    /\ cx' = 0
    /\ t0' = Fresh
    /\ t1' = Fresh
    /\ t2' = Fresh
    /\ UNCHANGED <<config, pIn, pt, rt, mapLocals, t3, k, usedDig, thrown>>

\* lines 133-136, an allocation fails
ep2_mul_cof_bn_l133_fail ==
    /\ Step("bn_133", "bn_160")
    /\ thrown' = TRUE
    /\ UNCHANGED <<config, pIn, pt, rt, mapLocals, clrLocals, k, usedDig>>

ep2_mul_cof_bn_l138 ==
    /\ Step("bn_138", "bn_141")
    /\ cx' = fp_prime_get_par
    /\ UNCHANGED <<config, pIn, pt, rt, mapLocals, t0, t1, t2, t3, k,
                   usedDig, thrown>>

\* line 141 with r for t0
ep2_mul_cof_bn_l141_early ==
    /\ Step("bn_141", "bn_144")
    /\ t0' = ep2_mul_basic(pt, cx)
    /\ WriteR(ep2_mul_basic(pt, cx))
    /\ UNCHANGED <<config, pIn, mapLocals, cx, t1, t2, t3, k, usedDig,
                   thrown>>

ep2_mul_cof_bn_l141 ==
    /\ Step("bn_141", "bn_144")
    /\ t0' = ep2_mul_basic(pt, cx)
    /\ UNCHANGED <<config, pIn, pt, rt, mapLocals, cx, t1, t2, t3, k,
                   usedDig, thrown>>

ep2_mul_cof_bn_l144 ==
    /\ Step("bn_144", "bn_145")
    /\ t1' = ep2_dbl(t0)
    /\ UNCHANGED <<config, pIn, pt, rt, mapLocals, cx, t0, t2, t3, k,
                   usedDig, thrown>>

ep2_mul_cof_bn_l145 ==
    /\ Step("bn_145", "bn_146")
    /\ t1' = ep2_add(t1, t0)
    /\ UNCHANGED <<config, pIn, pt, rt, mapLocals, cx, t0, t2, t3, k,
                   usedDig, thrown>>

\* line 146 left out
ep2_mul_cof_bn_l146_skip ==
    /\ Step("bn_146", "bn_147")
    /\ UNCHANGED <<config, pIn, pt, rt, mapLocals, clrLocals, k, usedDig,
                   thrown>>

ep2_mul_cof_bn_l146 ==
    /\ Step("bn_146", "bn_147")
    /\ t1' = ep2_norm(t1)
    /\ UNCHANGED <<config, pIn, pt, rt, mapLocals, cx, t0, t2, t3, k,
                   usedDig, thrown>>

ep2_mul_cof_bn_l147 ==
    /\ Step("bn_147", "bn_150")
    /\ t1' = ep2_frb(t1, 1)
    /\ UNCHANGED <<config, pIn, pt, rt, mapLocals, cx, t0, t2, t3, k,
                   usedDig, thrown>>

ep2_mul_cof_bn_l150 ==
    /\ Step("bn_150", "bn_151")
    /\ t2' = ep2_frb(pt, 2)
    /\ UNCHANGED <<config, pIn, pt, rt, mapLocals, cx, t0, t1, t3, k,
                   usedDig, thrown>>

ep2_mul_cof_bn_l151 ==
    /\ Step("bn_151", "bn_152")
    /\ t2' = ep2_frb(t2, 1)
    /\ UNCHANGED <<config, pIn, pt, rt, mapLocals, cx, t0, t1, t3, k,
                   usedDig, thrown>>

ep2_mul_cof_bn_l152 ==
    /\ Step("bn_152", "bn_153")
    /\ t2' = ep2_add(t2, t0)
    /\ UNCHANGED <<config, pIn, pt, rt, mapLocals, cx, t0, t1, t3, k,
                   usedDig, thrown>>

ep2_mul_cof_bn_l153 ==
    /\ Step("bn_153", "bn_154")
    /\ t2' = ep2_add(t2, t1)
    /\ UNCHANGED <<config, pIn, pt, rt, mapLocals, cx, t0, t1, t3, k,
                   usedDig, thrown>>

\* line 154 with the first power of the endomorphism
ep2_mul_cof_bn_l154_frb1 ==
    /\ Step("bn_154", "bn_155")
    /\ t1' = ep2_frb(t0, 1)
    /\ UNCHANGED <<config, pIn, pt, rt, mapLocals, cx, t0, t2, t3, k,
                   usedDig, thrown>>

ep2_mul_cof_bn_l154 ==
    /\ Step("bn_154", "bn_155")
    /\ t1' = ep2_frb(t0, 2)
    /\ UNCHANGED <<config, pIn, pt, rt, mapLocals, cx, t0, t2, t3, k,
                   usedDig, thrown>>

ep2_mul_cof_bn_l155 ==
    /\ Step("bn_155", "bn_157")
    /\ t2' = ep2_add(t2, t1)
    /\ UNCHANGED <<config, pIn, pt, rt, mapLocals, cx, t0, t1, t3, k,
                   usedDig, thrown>>

ep2_mul_cof_bn_l157 ==
    /\ Step("bn_157", "bn_163")
    /\ WriteR(ep2_norm(t2))
    /\ UNCHANGED <<config, pIn, mapLocals, cx, t0, t1, t2, t3, k, usedDig,
                   thrown>>

\* lines 159-161: CATCH_ANY { THROW(ERR_CAUGHT); }
ep2_mul_cof_bn_l160 ==
    /\ Step("bn_160", "bn_163")
    /\ thrown' = TRUE
    /\ UNCHANGED <<config, pIn, pt, rt, mapLocals, clrLocals, k, usedDig>>

\* lines 162-167: FINALLY, then the return or the propagation of the error
ep2_mul_cof_bn_l163 ==
    /\ pc = "bn_163"
    /\ pc' = Return
    /\ UNCHANGED <<config, pIn, pt, rt, mapLocals, clrLocals, k, usedDig,
                   thrown>>

(* ep2_mul_cof_b12 *)

\* lines 187-191: ep2_new(t0) ... ep2_new(t3); bn_new(x)
ep2_mul_cof_b12_l187 ==
    /\ Step("b12_187", "b12_193")
    /\ cx' = 0
    /\ t0' = Fresh
    /\ t1' = Fresh
    /\ t2' = Fresh
    /\ t3' = Fresh
    /\ UNCHANGED <<config, pIn, pt, rt, mapLocals, k, usedDig, thrown>>

\* lines 187-191, an allocation fails
ep2_mul_cof_b12_l187_fail ==
    /\ Step("b12_187", "b12_214")
    /\ thrown' = TRUE
    /\ UNCHANGED <<config, pIn, pt, rt, mapLocals, clrLocals, k, usedDig>>

ep2_mul_cof_b12_l193 ==
    /\ Step("b12_193", "b12_196")
    /\ cx' = fp_prime_get_par
    /\ UNCHANGED <<config, pIn, pt, rt, mapLocals, t0, t1, t2, t3, k,
                   usedDig, thrown>>

ep2_mul_cof_b12_l196 ==
    /\ Step("b12_196", "b12_198")
    /\ t0' = ep2_mul_basic(pt, cx)
    /\ UNCHANGED <<config, pIn, pt, rt, mapLocals, cx, t1, t2, t3, k,
                   usedDig, thrown>>

ep2_mul_cof_b12_l198 ==
    /\ Step("b12_198", "b12_201")
    /\ t1' = ep2_mul_basic(t0, cx)
    /\ UNCHANGED <<config, pIn, pt, rt, mapLocals, cx, t0, t2, t3, k,
                   usedDig, thrown>>

ep2_mul_cof_b12_l201 ==
    /\ Step("b12_201", "b12_202")
    /\ t2' = ep2_sub(t1, t0)
    /\ UNCHANGED <<config, pIn, pt, rt, mapLocals, cx, t0, t1, t3, k,
                   usedDig, thrown>>

ep2_mul_cof_b12_l202 ==
    /\ Step("b12_202", "b12_204")
    /\ t2' = ep2_sub(t2, pt)
    /\ UNCHANGED <<config, pIn, pt, rt, mapLocals, cx, t0, t1, t3, k,
                   usedDig, thrown>>

ep2_mul_cof_b12_l204 ==
    /\ Step("b12_204", "b12_205")
    /\ t3' = ep2_sub(t0, pt)
    /\ UNCHANGED <<config, pIn, pt, rt, mapLocals, cx, t0, t1, t2, k,
                   usedDig, thrown>>

ep2_mul_cof_b12_l205 ==
    /\ Step("b12_205", "b12_206")
    /\ t3' = ep2_frb(t3, 1)
    /\ UNCHANGED <<config, pIn, pt, rt, mapLocals, cx, t0, t1, t2, k,
                   usedDig, thrown>>

ep2_mul_cof_b12_l206 ==
    /\ Step("b12_206", "b12_208")
    /\ t2' = ep2_add(t2, t3)
    /\ UNCHANGED <<config, pIn, pt, rt, mapLocals, cx, t0, t1, t3, k,
                   usedDig, thrown>>

ep2_mul_cof_b12_l208 ==
    /\ Step("b12_208", "b12_209")
    /\ t3' = ep2_dbl(pt)
    /\ UNCHANGED <<config, pIn, pt, rt, mapLocals, cx, t0, t1, t2, k,
                   usedDig, thrown>>

ep2_mul_cof_b12_l209 ==
    /\ Step("b12_209", "b12_210")
    /\ t3' = ep2_frb(t3, 2)
    /\ UNCHANGED <<config, pIn, pt, rt, mapLocals, cx, t0, t1, t2, k,
                   usedDig, thrown>>

ep2_mul_cof_b12_l210 ==
    /\ Step("b12_210", "b12_211")
    /\ t2' = ep2_add(t2, t3)
    /\ UNCHANGED <<config, pIn, pt, rt, mapLocals, cx, t0, t1, t3, k,
                   usedDig, thrown>>

ep2_mul_cof_b12_l211 ==
    /\ Step("b12_211", "b12_217")
    /\ WriteR(ep2_norm(t2))
    /\ UNCHANGED <<config, pIn, mapLocals, cx, t0, t1, t2, t3, k, usedDig,
                   thrown>>

\* lines 213-215: CATCH_ANY { THROW(ERR_CAUGHT); }
ep2_mul_cof_b12_l214 ==
    /\ Step("b12_214", "b12_217")
    /\ thrown' = TRUE
    /\ UNCHANGED <<config, pIn, pt, rt, mapLocals, clrLocals, k, usedDig>>

\* lines 216-222: FINALLY, then the return or the propagation of the error
ep2_mul_cof_b12_l217 ==
    /\ pc = "b12_217"
    /\ pc' = Return
    /\ UNCHANGED <<config, pIn, pt, rt, mapLocals, clrLocals, k, usedDig,
                   thrown>>

----------------------------------------------------------------------------
(* The specification.                                                      *)

Next ==
    \/ Recall
    \/ ep2_map_l238 \/ ep2_map_l238_fail \/ ep2_map_l241 \/ ep2_map_l242
    \/ ep2_map_l244 \/ ep2_map_l250 \/ ep2_map_l252 \/ ep2_map_l253
    \/ ep2_map_l257 \/ ep2_map_l260 \/ ep2_map_l269 \/ ep2_map_l270
    \/ ep2_map_l271 \/ ep2_map_l273 \/ ep2_map_l279 \/ ep2_map_l282
    \/ ep2_mul_cof_bn_l133 \/ ep2_mul_cof_bn_l133_fail
    \/ ep2_mul_cof_bn_l138 \/ ep2_mul_cof_bn_l141 \/ ep2_mul_cof_bn_l144
    \/ ep2_mul_cof_bn_l145 \/ ep2_mul_cof_bn_l146 \/ ep2_mul_cof_bn_l147
    \/ ep2_mul_cof_bn_l150 \/ ep2_mul_cof_bn_l151 \/ ep2_mul_cof_bn_l152
    \/ ep2_mul_cof_bn_l153 \/ ep2_mul_cof_bn_l154 \/ ep2_mul_cof_bn_l155
    \/ ep2_mul_cof_bn_l157 \/ ep2_mul_cof_bn_l160 \/ ep2_mul_cof_bn_l163
    \/ ep2_mul_cof_b12_l187 \/ ep2_mul_cof_b12_l187_fail
    \/ ep2_mul_cof_b12_l193 \/ ep2_mul_cof_b12_l196 \/ ep2_mul_cof_b12_l198
    \/ ep2_mul_cof_b12_l201 \/ ep2_mul_cof_b12_l202 \/ ep2_mul_cof_b12_l204
    \/ ep2_mul_cof_b12_l205 \/ ep2_mul_cof_b12_l206 \/ ep2_mul_cof_b12_l208
    \/ ep2_mul_cof_b12_l209 \/ ep2_mul_cof_b12_l210 \/ ep2_mul_cof_b12_l211
    \/ ep2_mul_cof_b12_l214 \/ ep2_mul_cof_b12_l217

Spec == Init /\ [][Next]_vars

\* a call that has started runs on: the code is sequential and never waits
FairSpec == Spec /\ WF_vars(Next)

----------------------------------------------------------------------------
(* Reference definitions for the properties: the group of the curve in     *)
(* affine coordinates, scalar multiples by repeated addition, the          *)
(* endomorphism psi on affine points.                                      *)

Affine(p) == ep2_is_infty(p) \/ (p.z = fp2_one /\ p.norm = 1)

OnCurve(p) == ep2_is_infty(p) \/ fp2_sqr(p.y) = ep2_rhs(p)

RefAdd(p, q) == Val({ep2_add_basic(u, v) : u \in {p}, v \in {q}})

RECURSIVE RefMulN(_, _)
RefMulN(n, p) ==
    IF n = 0 THEN ep2_set_infty
    ELSE IF n = 1 THEN p
    ELSE RefAdd(RefMulN(n \div 2, p), RefMulN(n - (n \div 2), p))

\* [n]p for a normalized point p
RefMul(n, p) ==
    Val({IF m < 0 THEN ep2_neg(RefMulN(-m, u)) ELSE RefMulN(m, u) :
         m \in {n}, u \in {p}})

Psi(p) == ep2_frb(p, 1)

\* [x]p + psi([3x]p) + psi^2([x]p) + psi^3(p)
BnFormula(p) ==
    LET xx == fp_prime_get_par
    IN  RefAdd(RefAdd(RefAdd(RefMul(xx, p), Psi(RefMul(3 * xx, p))),
                      Psi(Psi(RefMul(xx, p)))),
               Psi(Psi(Psi(p))))

\* [x^2 - x - 1]p + psi([x - 1]p) + psi^2([2]p)
B12Formula(p) ==
    LET xx == fp_prime_get_par
    IN  RefAdd(RefAdd(RefMul(xx * xx - xx - 1, p), Psi(RefMul(xx - 1, p))),
               Psi(Psi(RefMul(2, p))))

\* lines 269-274 as a function of the point: the default branch of ep2_map
GenericClearer(p) ==
    IF bn_bits(ep2_curve_get_cof) < RLC_DIG
    THEN ep2_mul_dig(p, bn_dp0(ep2_curve_get_cof))
    ELSE ep2_mul_basic(p, ep2_curve_get_cof)

InvMod(a, n) == CHOOSE i \in 1..(n - 1) : (a * i) % n = 1

\* On the subgroup of order r the endomorphism psi is multiplication by p:
\* there the BN formula is multiplication by x + 3xp + xp^2 + p^3, and the
\* cofactor is invertible modulo r.  The scalar that takes [cof]p to the
\* BN formula's value:
BnRatio ==
    LET xx == fp_prime_get_par
        pp == fp_prime_get
        r == ep2_curve_get_ord
    IN  ((xx + 3 * xx * pp + xx * pp * pp + pp * pp * pp)
         * InvMod(ep2_curve_get_cof % r, r)) % r

\* the digest bytes d[1 .. n], big-endian
RECURSIVE BigEndian(_, _, _)
BigEndian(d, i, n) ==
    IF i > n THEN 0 ELSE d[i] * (256 ^ (n - i)) + BigEndian(d, i + 1, n)

\* the candidate's first real part: the leading digest bytes, reduced
X0 ==
    LET n == IF RLC_FP_BYTES < RLC_MD_LEN THEN RLC_FP_BYTES ELSE RLC_MD_LEN
    IN  BigEndian(md_map(msg), 1, n) % fp_prime_get

\* the curve's right-hand side at (xr, 0) is a square of the extension
SquareAt(xr) ==
    \E s \in Fp2 :
        fp2_sqr(s) = ep2_rhs(Pt(<<xr % fp_prime_get, 0>>, fp2_zero,
                                fp2_one, 1))

\* ep2_mul_cof_bn (resp. _b12) has stored its result
BnDone == pc = "bn_163" /\ ~thrown
B12Done == pc = "b12_217" /\ ~thrown

\* a clearer is running and has not stored its result
InClearer ==
    \/ pc \in {"bn_133", "bn_138", "bn_141", "bn_144", "bn_145", "bn_146",
               "bn_147", "bn_150", "bn_151", "bn_152", "bn_153", "bn_154",
               "bn_155", "bn_157", "bn_160"}
    \/ pc \in {"b12_187", "b12_193", "b12_196", "b12_198", "b12_201",
               "b12_202", "b12_204", "b12_205", "b12_206", "b12_208",
               "b12_209", "b12_210", "b12_211", "b12_214"}
    \/ (pc \in {"bn_163", "b12_217"} /\ thrown)

----------------------------------------------------------------------------
(* The properties.                                                         *)

\* C8: when ep2_mul_cof_bn has stored r, r is the normalized point
\* [x]p + psi([3x]p) + psi^2([x]p) + psi^3(p) for the p it was given, and p
\* still holds its value when r is other storage.
C8_BnFormula ==
    BnDone => /\ Output = BnFormula(pIn)
              /\ Affine(Output)
              /\ (~Aliased => pt = pIn)

C8_Witness ==
    /\ BnDone /\ ~Aliased /\ addmode = "PROJC"
    /\ ~ep2_is_infty(Output) /\ Output = BnFormula(pIn)

\* C9: when ep2_mul_cof_b12 has stored r, r is the normalized point
\* [x^2 - x - 1]p + psi([x - 1]p) + psi^2([2]p), with its flag norm set.
C9_B12Formula ==
    B12Done => Output = B12Formula(pIn) /\ Affine(Output)

\* C6: at every call of ep2_frb, and at every call of ep2_rhs in the
\* candidate loop, the point passed has its flag norm set.
C6_NormalizedAtCalls ==
    /\ pc = "map_250" => pt.norm = 1
    /\ pc = "bn_147" => t1.norm = 1
    /\ pc = "bn_150" => pt.norm = 1
    /\ pc = "bn_151" => t2.norm = 1
    /\ pc = "bn_154" => t0.norm = 1
    /\ pc = "b12_205" => t3.norm = 1
    /\ pc = "b12_209" => t3.norm = 1

C10_AliasingSafe ==
    /\ InClearer => pt = pIn /\ (~Aliased => rt = prior)
    /\ (op # "map" /\ pc = "done" /\ ~Aliased) => pt = pIn
    /\ (op # "map" /\ pc = "done" /\ call = 2) => Output = first.out

C10_Witness ==
    /\ op # "map" /\ pc = "done" /\ call = 2
    /\ Aliased /\ ~first.alias
    /\ Output = first.out /\ Output # pIn /\ ~ep2_is_infty(Output)

\* C1: in the candidate loop x = (x0 + k, 0) and z = 1, with k the number
\* of increments made after a failed square root, and a failed attempt
\* changes nothing else; at
\* the exit of the loop the point is affine with its flag set, y^2 is the
\* right-hand side at x, and k is the least k whose right-hand side at
\* (x0 + k, 0) is a square.
C1_Candidate ==
    /\ pc \in {"map_250", "map_252", "map_253", "map_257", "map_260"} =>
          pt.x = <<(X0 + k) % fp_prime_get, 0>> /\ pt.z = fp2_one
    /\ pc \in {"map_250", "map_252", "map_257"} =>
          pt.y = prior.y /\ pt.norm = prior.norm
    /\ pc = "map_260" =>
          /\ pt.norm = 1
          /\ fp2_sqr(pt.y) = ep2_rhs(pt)
          /\ SquareAt(X0 + k)
          /\ \A j \in 0..(k - 1) : ~SquareAt(X0 + j)

C1_Witness == pc = "map_260" /\ k >= 2

\* C2: every call of ep2_map ends, with a point or with an error.
C2_Terminates == (pc = "map_238") ~> (pc \in {"done", "error"})

C2_Witness == op = "map" /\ pc = "done" /\ k >= 2

\* C3: a second call of ep2_map on the same message gives the same point,
\* whatever the output points held before the calls.
C3_Deterministic ==
    (op = "map" /\ pc = "done" /\ call = 2) => pt = first.out

C3_Witness ==
    /\ op = "map" /\ pc = "done" /\ call = 2
    /\ prior # first.prior /\ pt = first.out /\ ~ep2_is_infty(pt)

\* C5: a call that ends with an error leaves the output point as it was.
C5_NoPartialOutput == pc = "error" => Output = prior

\* C7 (as stated): the default branch uses ep2_mul_dig exactly when the
\* cofactor has at most RLC_DIG bits, ep2_mul_basic exactly when it has
\* more, and multiplies by the whole cofactor.
C7_DigIffFitsWord ==
    (op = "map" /\ pc = "done" /\ ep_curve_is_pairf \notin {EP_BN, EP_B12}) =>
        /\ usedDig = "dig" <=> bn_bits(ep2_curve_get_cof) <= RLC_DIG
        /\ usedDig = "basic" <=> bn_bits(ep2_curve_get_cof) > RLC_DIG
        /\ pt = RefMul(ep2_curve_get_cof, pIn)

\* C7 (amended): the default branch uses ep2_mul_dig exactly when the
\* cofactor has fewer than RLC_DIG bits, ep2_mul_basic exactly when it has
\* RLC_DIG bits or more, and multiplies by the whole cofactor.
C7_DigIffBelowWord ==
    (op = "map" /\ pc = "done" /\ ep_curve_is_pairf \notin {EP_BN, EP_B12}) =>
        /\ usedDig = "dig" <=> bn_bits(ep2_curve_get_cof) < RLC_DIG
        /\ usedDig = "basic" <=> bn_bits(ep2_curve_get_cof) >= RLC_DIG
        /\ pt = RefMul(ep2_curve_get_cof, pIn)

C7_Witness ==
    /\ op = "map" /\ pc = "done"
    /\ bn_bits(ep2_curve_get_cof) = RLC_DIG /\ usedDig = "basic"
    /\ ~ep2_is_infty(pt)

============================================================================
